---- MODULE Spec2Model ----
(***************************************************************************)
(* Model of proxy/handler.go: ProxyHandler.ServeHTTP and its helpers.      *)
(* Strings are sequences of one-character strings, so that suffix and      *)
(* substring tests are computed the way strings.HasSuffix and              *)
(* strings.Contains compute them; a text whose characters are never        *)
(* inspected (a body, an error message) is a sequence of opaque chunks.    *)
(* A header multi-map is a function from canonical header names to the     *)
(* ordered list of values of that name.                                    *)
(***************************************************************************)
EXTENDS Integers, Sequences, FiniteSets, TLC

\* ------------------------------------------------------------------ bounds
\* Number of request-handling tasks (goroutines running ServeHTTP) modelled.
MaxReqs == 2

\* ------------------------------------------------------------- string data
GET == <<"G", "E", "T">>
HEAD == <<"H", "E", "A", "D">>
POST == <<"P", "O", "S", "T">>
\* a method that is not an HTTP token (contains a space)
BADMETHOD == <<"G", "E", " ", "T">>
http == <<"h", "t", "t", "p">>
example_com == <<"e", "x", "a", "m", "p", "l", "e", ".", "c", "o", "m">>
api_example_com == <<"a", "p", "i", ".", "e", "x", "a", "m", "p", "l", "e", ".", "c", "o", "m">>
notexample_com == <<"n", "o", "t", "e", "x", "a", "m", "p", "l", "e", ".", "c", "o", "m">>
evil_com == <<"e", "v", "i", "l", ".", "c", "o", "m">>
Example_com == <<"E", "x", "a", "m", "p", "l", "e", ".", "c", "o", "m">>
path_a == <<"/", "a">>
path_b == <<"/", "b">>
no_store == <<"n", "o", "-", "s", "t", "o", "r", "e">>
max_age_0 == <<"m", "a", "x", "-", "a", "g", "e", "=", "0">>
private_no_store == <<"p", "r", "i", "v", "a", "t", "e", ",", " ", "n", "o", "-", "s", "t", "o", "r", "e">>
tok == <<"t", "o", "k">>
EmptyStr == << >>

\* strings.HasSuffix(s, suffix)
HasSuffix(s, suffix) ==
    /\ Len(s) >= Len(suffix)
    /\ SubSeq(s, Len(s) - Len(suffix) + 1, Len(s)) = suffix

\* strings.Contains(s, substr)
Contains(s, substr) ==
    \E i \in 1..(Len(s) + 1) :
        /\ i + Len(substr) - 1 <= Len(s)
        /\ SubSeq(s, i, i + Len(substr) - 1) = substr

\* ------------------------------------------------------------ http.Header
NoHeader == << >>

\* Header.Get: the first value of the key, "" when there is none
HeaderGet(h, k) ==
    IF k \in DOMAIN h /\ Len(h[k]) > 0 THEN h[k][1] ELSE EmptyStr

\* Header.Add: append a value to the key's list
HeaderAdd(h, k, v) ==
    [x \in DOMAIN h \cup {k} |->
        IF x = k THEN (IF k \in DOMAIN h THEN Append(h[k], v) ELSE <<v>>)
        ELSE h[x]]

\* Header.Set: replace the key's list by the single value
HeaderSet(h, k, v) ==
    [x \in DOMAIN h \cup {k} |-> IF x = k THEN <<v>> ELSE h[x]]

\* Header.Del
HeaderDel(h, k) == [x \in DOMAIN h \ {k} |-> h[x]]

\* the nested loops "for key, values := range src { for value { dst.Add } }"
copyHeaders(dst, src) ==
    [x \in DOMAIN dst \cup DOMAIN src |->
        (IF x \in DOMAIN dst THEN dst[x] ELSE << >>)
        \o (IF x \in DOMAIN src THEN src[x] ELSE << >>)]

\* -------------------------------------------------------------- url.URL
\* URL.String() for a URL made of scheme, host and path
URLString(u) ==
    (IF u.Scheme # EmptyStr THEN u.Scheme \o <<":">> ELSE EmptyStr)
    \o (IF (u.Scheme # EmptyStr \/ u.Host # EmptyStr)
           /\ (u.Host # EmptyStr \/ u.Path # EmptyStr)
        THEN <<"/", "/">> \o u.Host ELSE EmptyStr)
    \o u.Path

\* ------------------------------------------------------ pure helpers
\* NewProxyHandler: the cacheable HTTP methods
cacheables == {GET, HEAD}

\* ServeHTTP's first check: the target lacks a scheme or a host
isMalformedMut(r) == r.URL.Scheme = EmptyStr /\ r.URL.Host = EmptyStr
isMalformed(r) == r.URL.Scheme = EmptyStr \/ r.URL.Host = EmptyStr

isDomainAllowedMut(allowed, host) ==
    \/ Len(allowed) = 0
    \/ \E n \in 1..Len(allowed) :
          \/ host = allowed[n]
          \/ HasSuffix(host, <<".">> \o allowed[n])
isDomainAllowedLoose(allowed, host) ==
    \/ Len(allowed) = 0
    \/ \E n \in 1..Len(allowed) : Len(host) >= 0
isDomainAllowed(allowed, host) ==
    \/ Len(allowed) = 0
    \/ \E n \in 1..Len(allowed) : HasSuffix(host, allowed[n])

isCacheable(r) ==
    IF r.Method \notin cacheables THEN FALSE
    ELSE IF HeaderGet(r.Header, "Authorization") # EmptyStr THEN FALSE
    ELSE ~Contains(HeaderGet(r.Header, "Cache-Control"), no_store)

isResponseCacheable(resp) ==
    IF resp.StatusCode # 200 THEN FALSE
    ELSE IF Contains(HeaderGet(resp.Header, "Cache-Control"), no_store) THEN FALSE
    ELSE IF HeaderGet(resp.Header, "Set-Cookie") # EmptyStr THEN FALSE
    ELSE TRUE

createCacheKeyMut(r) == URLString(r.URL)
createCacheKey(r) == r.Method \o <<":">> \o URLString(r.URL)

\* --------------------------------------------------------- net/http parts
\* characters that may not occur in an HTTP token
NotTokenChars == {" ", ":", "/", ",", ";", "=", "@", "?"}

\* http.NewRequest fails on a method that is not a token; "" stands for GET
validMethod(m) == \A n \in 1..Len(m) : m[n] \notin NotTokenChars

\* the CheckRedirect policy of the client built by NewProxyHandler:
\* TRUE when the redirect is refused, via being the requests made so far
RedirectLimit == 10
CheckRedirectMut(viaLen) == viaLen > RedirectLimit
CheckRedirect(viaLen) == viaLen >= RedirectLimit

\* p.client.Do against an origin behaviour o: the k-th redirect of the chain
\* is submitted to CheckRedirect with the k requests made so far; the call
\* errs on a refused redirect or on a network failure or timeout
client_Do(o) ==
    LET refused == \E k \in 1..o.Redirects : CheckRedirect(k)
    IN  IF refused \/ o.Fail # "none"
        THEN [err |-> TRUE, StatusCode |-> 0, Header |-> NoHeader,
              Body |-> << >>, BodyErr |-> FALSE]
        ELSE [err |-> FALSE, StatusCode |-> o.StatusCode, Header |-> o.Header,
              Body |-> o.Body, BodyErr |-> o.BodyErr]

\* a fresh http.ResponseWriter: no header, no status line, no body
NewWriter == [Header |-> NoHeader, Status |-> 0, Body |-> << >>]

\* ResponseWriter.WriteHeader: the first status written is the one sent
WriteHeader(rw, code) == [rw EXCEPT !.Status = IF @ = 0 THEN code ELSE @]

\* ResponseWriter.Write: sends 200 first when no status was written
Write(rw, b) == [WriteHeader(rw, 200) EXCEPT !.Body = @ \o b]

\* http.Error
httpError(rw, msg, code) ==
    LET h == HeaderSet(HeaderSet(rw.Header, "Content-Type", <<"text/plain; charset=utf-8">>),
                       "X-Content-Type-Options", <<"nosniff">>)
    IN  Write(WriteHeader([rw EXCEPT !.Header = h], code), <<msg>>)

\* ------------------------------------------------------------ cloneRequest
client_addr == <<"10.0.0.7:5555">>

cloneRequestMut(r) ==
    IF ~validMethod(r.Method)
    THEN [err |-> TRUE, Method |-> EmptyStr, URL |-> EmptyStr,
          Header |-> NoHeader, Body |-> << >>]
    ELSE LET copied == copyHeaders(NoHeader, r.Header)
             fwd    == HeaderSet(HeaderAdd(copied, "X-Forwarded-For", r.RemoteAddr),
                                 "X-Forwarded-Host", r.Host)
         IN  [err |-> FALSE,
              Method |-> IF r.Method = EmptyStr THEN GET ELSE r.Method,
              URL |-> URLString(r.URL),
              Header |-> HeaderDel(fwd, "Connection"),
              Body |-> r.Body]

cloneRequest(r) ==
    IF ~validMethod(r.Method)
    THEN [err |-> TRUE, Method |-> EmptyStr, URL |-> EmptyStr,
          Header |-> NoHeader, Body |-> << >>]
    ELSE LET copied == copyHeaders(NoHeader, r.Header)
             fwd    == HeaderSet(HeaderSet(copied, "X-Forwarded-For", r.RemoteAddr),
                                 "X-Forwarded-Host", r.Host)
         IN  [err |-> FALSE,
              Method |-> IF r.Method = EmptyStr THEN GET ELSE r.Method,
              URL |-> URLString(r.URL),
              Header |-> HeaderDel(fwd, "Connection"),
              Body |-> r.Body]

\* ----------------------------------------------------- cached responses
ProxyServerName == <<"Go-Proxy-Server/1.0">>
HIT == <<"HIT">>

writeCachedHeadersMut(rw, response) == [rw EXCEPT !.Header = HeaderSet(@, "X-Cache", <<"MISS">>)]
writeCachedHeaders(rw, response) == [rw EXCEPT !.Header = HeaderSet(@, "X-Cache", HIT)]

writeCachedBody(rw, response) == Write(rw, response)

\* cache.Cache.Get against the store c: found, and the stored item's Value
cacheGet(c, key) ==
    IF key \in DOMAIN c THEN [found |-> TRUE, Value |-> c[key]]
    ELSE [found |-> FALSE, Value |-> << >>]

\* what cacheResponse does to the store c: it only logs, c is left as it is
cacheResponse(c, key, resp, body) == c

\* the decision of ServeHTTP to hand the response to cacheResponse
shouldCacheMut(r, resp) == isResponseCacheable(resp)
shouldCache(r, resp) == isCacheable(r) /\ isResponseCacheable(resp)

\* ---------------------------------------------------------------- inputs
Tasks == 1..MaxReqs

URL(scheme, host, path) == [Scheme |-> scheme, Host |-> host, Path |-> path]

Request(method, url, header, body) ==
    [Method |-> method, URL |-> url, Header |-> header, Host |-> url.Host,
     RemoteAddr |-> client_addr, Body |-> body]

Hdr(k, vs) == [x \in {k} |-> vs]

url_a == URL(http, example_com, path_a)

\* inbound requests that differ in target: malformed targets under several
\* methods and headers, and hosts to set against the allow-list
GateRequests ==
    {Request(GET, URL(http, h, path_a), NoHeader, << >>) :
        h \in {example_com, api_example_com, notexample_com, evil_com, Example_com}}
    \cup
    {Request(GET, URL(EmptyStr, example_com, path_a), NoHeader, << >>),
     Request(GET, URL(http, EmptyStr, path_a), Hdr("Authorization", <<tok>>), << >>),
     Request(POST, URL(EmptyStr, EmptyStr, path_a), Hdr("Cache-Control", <<no_store>>), <<"form">>)}

\* inbound requests for one target that differ in method and headers
HeaderRequests ==
    {Request(m, url_a, NoHeader, << >>) : m \in {GET, HEAD, POST}}
    \cup
    {Request(GET, url_a, h, << >>) :
        h \in {Hdr("Authorization", <<tok>>),
               Hdr("Authorization", <<EmptyStr, tok>>),
               Hdr("Cache-Control", <<private_no_store>>),
               Hdr("Cache-Control", <<max_age_0>>),
               Hdr("Cache-Control", <<max_age_0, no_store>>)}}

\* inbound requests, one for each way ServeHTTP can go before the outbound call
OriginRequests ==
    {Request(m, url_a, NoHeader, << >>) : m \in {GET, POST, BADMETHOD}}
    \cup
    {Request(GET, URL(http, evil_com, path_a), NoHeader, << >>),
     Request(GET, URL(EmptyStr, example_com, path_a), NoHeader, << >>)}

Origin(redirects, fail, status, header, body, bodyErr) ==
    [Redirects |-> redirects, Fail |-> fail, StatusCode |-> status,
     Header |-> header, Body |-> body, BodyErr |-> bodyErr]

origin_ok == Origin(0, "none", 200, NoHeader, <<"page">>, FALSE)

\* the least an origin can do: answer, or be unreachable
BasicOrigins == {origin_ok, Origin(0, "network", 0, NoHeader, << >>, FALSE)}

\* origin answers that differ in what decides their caching
CacheOrigins ==
    BasicOrigins
    \cup
    {Origin(0, "none", 200, h, <<"page">>, FALSE) :
        h \in {Hdr("Set-Cookie", <<<<"sid=1">>>>),
               Hdr("Cache-Control", <<private_no_store>>)}}
    \cup
    {Origin(0, "none", 404, NoHeader, <<"gone">>, FALSE),
     Origin(0, "none", 200, NoHeader, <<"page">>, TRUE)}

\* every way an outbound call can end: failures, redirect chains around the
\* limit, answers with headers of their own, a body that cannot be read
Origins ==
    CacheOrigins
    \cup
    {Origin(0, "timeout", 0, NoHeader, << >>, FALSE)}
    \cup
    {Origin(n, "none", 200, NoHeader, <<"page">>, FALSE) :
        n \in {RedirectLimit - 1, RedirectLimit, RedirectLimit + 1}}
    \cup
    {Origin(0, "none", 200,
            Hdr("X-Proxy-Server", <<<<"origin">>>>) @@ Hdr("Vary", <<<<"a">>, <<"b">>>>),
            <<"page">>, FALSE)}

\* the allow-lists a Config may carry
AllowLists == {<< >>, <<example_com>>, <<evil_com, example_com>>}

\* the contents the injected cache may have
key_a == GET \o <<":">> \o URLString(url_a)
key_evil == GET \o <<":">> \o URLString(URL(http, evil_com, path_a))
Stores == {<< >>, [k \in {key_a, key_evil} |-> <<"stored">>]}

NoRequest == Request(EmptyStr, URL(EmptyStr, EmptyStr, EmptyStr), NoHeader, << >>)
NoOrigin == Origin(0, "none", 0, NoHeader, << >>, FALSE)
NoOutbound == [err |-> FALSE, Method |-> EmptyStr, URL |-> EmptyStr,
               Header |-> NoHeader, Body |-> << >>]

\* ----------------------------------------------------------------- state
VARIABLES
    AllowedDomains, \* p.config.AllowedDomains
    cache,          \* the store behind p.cache
    pc,             \* where each task is: idle, Received, Forwarding, done
    req,            \* the inbound request r of each task
    after,          \* the tasks that had finished the same request when this one was given it
    proxyReq,       \* the outbound request built by cloneRequest
    origin,         \* what the outbound call of the task met
    w,              \* the task's http.ResponseWriter
    log,            \* the calls the task made on its collaborators, in order
    cacheWrites     \* the (key, response, body) the task handed to cacheResponse

vars == <<AllowedDomains, cache, pc, req, after, proxyReq, origin, w, log, cacheWrites>>

InitWith(lists, stores) ==
    /\ AllowedDomains \in lists
    /\ cache \in stores
    /\ pc = [i \in Tasks |-> "idle"]
    /\ req = [i \in Tasks |-> NoRequest]
    /\ after = [i \in Tasks |-> {}]
    /\ proxyReq = [i \in Tasks |-> NoOutbound]
    /\ origin = [i \in Tasks |-> NoOrigin]
    /\ w = [i \in Tasks |-> NewWriter]
    /\ log = [i \in Tasks |-> << >>]
    /\ cacheWrites = [i \in Tasks |-> << >>]

\* the server hands request r to a new task; tasks are numbered in the order
\* in which the server starts them
Receive(i, r) ==
    /\ pc[i] = "idle"
    /\ \A j \in Tasks : j < i => pc[j] # "idle"
    /\ pc' = [pc EXCEPT ![i] = "Received"]
    /\ req' = [req EXCEPT ![i] = r]
    /\ after' = [after EXCEPT ![i] = {j \in Tasks : pc[j] = "done" /\ req[j] = r}]
    /\ UNCHANGED <<AllowedDomains, cache, proxyReq, origin, w, log, cacheWrites>>

\* ServeHTTP from its entry to the call of p.client.Do, for task i
serveUntilForward(i) ==
    LET r    == req[i]
        key  == createCacheKey(r)
        item == cacheGet(cache, key)
        out  == cloneRequest(r)
    IN  IF isMalformed(r)
        THEN /\ w' = [w EXCEPT ![i] = httpError(@, "Invalid proxy request. URL must include scheme and host.", 400)]
             /\ log' = [log EXCEPT ![i] = @ \o <<"http.Error">>]
             /\ pc' = [pc EXCEPT ![i] = "done"]
             /\ UNCHANGED proxyReq
        ELSE IF ~isDomainAllowed(AllowedDomains, r.URL.Host)
        THEN /\ w' = [w EXCEPT ![i] = httpError(@, "Domain not allowed", 403)]
             /\ log' = [log EXCEPT ![i] = @ \o <<"http.Error">>]
             /\ pc' = [pc EXCEPT ![i] = "done"]
             /\ UNCHANGED proxyReq
        ELSE IF isCacheable(r) /\ item.found
        THEN /\ w' = [w EXCEPT ![i] = writeCachedBody(writeCachedHeaders(@, item.Value), item.Value)]
             /\ log' = [log EXCEPT ![i] = @ \o <<"cache.Get", "Write">>]
             /\ pc' = [pc EXCEPT ![i] = "done"]
             /\ UNCHANGED proxyReq
        ELSE IF out.err
        THEN /\ w' = [w EXCEPT ![i] = httpError(@, "Error creating proxy request", 500)]
             /\ log' = [log EXCEPT ![i] =
                           @ \o (IF isCacheable(r) THEN <<"cache.Get">> ELSE << >>)
                             \o <<"http.Error">>]
             /\ pc' = [pc EXCEPT ![i] = "done"]
             /\ UNCHANGED proxyReq
        ELSE /\ proxyReq' = [proxyReq EXCEPT ![i] = out]
             /\ log' = [log EXCEPT ![i] =
                           @ \o (IF isCacheable(r) THEN <<"cache.Get">> ELSE << >>)
                             \o <<"client.Do">>]
             /\ pc' = [pc EXCEPT ![i] = "Forwarding"]
             /\ UNCHANGED w

\* a single-flight variant: a task waits while another forwards the same key
ServeHTTP_beginMut(i) ==
    /\ pc[i] = "Received"
    /\ ~\E j \in Tasks : /\ j # i
                         /\ pc[j] = "Forwarding"
                         /\ createCacheKey(req[j]) = createCacheKey(req[i])
    /\ serveUntilForward(i)
    /\ UNCHANGED <<AllowedDomains, cache, req, after, origin, cacheWrites>>

\* the step of task i from the entry of ServeHTTP to the call of p.client.Do;
\* nothing but the task's own position guards it
ServeHTTP_begin(i) ==
    /\ pc[i] = "Received"
    /\ serveUntilForward(i)
    /\ UNCHANGED <<AllowedDomains, cache, req, after, origin, cacheWrites>>

\* the answer to a failed outbound call
forwardFailedMut(rw) == httpError(rw, "Error forwarding request", 504)
forwardFailed(rw) == httpError(rw, "Error forwarding request", 502)

\* the origin's headers, the proxy's own marker and the origin's status
relayHeadersMut(rw, resp) ==
    WriteHeader([rw EXCEPT !.Header =
                    HeaderSet(copyHeaders(@, resp.Header),
                              "X-Proxy-Server", ProxyServerName)],
                200)
relayHeadersAddMut(rw, resp) ==
    WriteHeader([rw EXCEPT !.Header =
                    HeaderAdd(copyHeaders(@, resp.Header),
                              "X-Proxy-Server", ProxyServerName)],
                resp.StatusCode)
relayHeaders(rw, resp) ==
    WriteHeader([rw EXCEPT !.Header =
                    HeaderSet(copyHeaders(@, resp.Header),
                              "X-Proxy-Server", ProxyServerName)],
                resp.StatusCode)

\* a failed read of the origin's body is logged and nothing more is written
bodyReadFailedMut(rw) == Write(rw, <<"Error reading response body">>)
bodyReadFailed(rw) == rw

\* the calls ServeHTTP makes once the outbound call has returned a response
\* whose body can be read, in their order; cached tells whether the response
\* is handed to cacheResponse
relayCallsMut(cached) ==
    IF cached THEN <<"WriteHeader", "ReadAll", "Write", "cacheResponse">>
    ELSE <<"WriteHeader", "ReadAll", "Write">>
relayCalls(cached) ==
    IF cached THEN <<"WriteHeader", "ReadAll", "cacheResponse", "Write">>
    ELSE <<"WriteHeader", "ReadAll", "Write">>

\* ServeHTTP from the return of p.client.Do to its end, the call having met o
serveAfterForward(i, o) ==
    /\ LET resp == client_Do(o)
           r    == req[i]
           hdrs == relayHeaders(w[i], resp)
       IN  IF resp.err
           THEN /\ w' = [w EXCEPT ![i] = forwardFailed(@)]
                /\ log' = [log EXCEPT ![i] = @ \o <<"http.Error">>]
                /\ UNCHANGED <<cache, cacheWrites>>
           ELSE IF resp.BodyErr
           THEN /\ w' = [w EXCEPT ![i] = bodyReadFailed(hdrs)]
                /\ log' = [log EXCEPT ![i] = @ \o <<"WriteHeader", "ReadAll">>]
                /\ UNCHANGED <<cache, cacheWrites>>
           ELSE IF shouldCache(r, resp)
           THEN /\ w' = [w EXCEPT ![i] = Write(hdrs, resp.Body)]
                /\ log' = [log EXCEPT ![i] = @ \o relayCalls(TRUE)]
                /\ cache' = cacheResponse(cache, createCacheKey(r), resp, resp.Body)
                /\ cacheWrites' = [cacheWrites EXCEPT ![i] =
                              Append(@, [key |-> createCacheKey(r),
                                         StatusCode |-> resp.StatusCode,
                                         Header |-> resp.Header,
                                         body |-> resp.Body])]
           ELSE /\ w' = [w EXCEPT ![i] = Write(hdrs, resp.Body)]
                /\ log' = [log EXCEPT ![i] = @ \o relayCalls(FALSE)]
                /\ UNCHANGED <<cache, cacheWrites>>
    /\ origin' = [origin EXCEPT ![i] = o]
    /\ pc' = [pc EXCEPT ![i] = "done"]
    /\ UNCHANGED <<AllowedDomains, req, after, proxyReq>>

\* a retrying variant: after a failed outbound call the task starts over
ServeHTTP_endMut(i, o) ==
    /\ pc[i] = "Forwarding"
    /\ IF client_Do(o).err
       THEN /\ pc' = [pc EXCEPT ![i] = "Received"]
            /\ log' = [log EXCEPT ![i] = << >>]
            /\ proxyReq' = [proxyReq EXCEPT ![i] = NoOutbound]
            /\ UNCHANGED <<AllowedDomains, cache, req, after, origin, w, cacheWrites>>
       ELSE serveAfterForward(i, o)

\* the step of task i from the return of p.client.Do, which met o, to the end
\* of ServeHTTP
ServeHTTP_end(i, o) ==
    /\ pc[i] = "Forwarding"
    /\ serveAfterForward(i, o)

\* targets and allow-lists vary
Init == InitWith(AllowLists, Stores)

Next ==
    \E i \in Tasks :
        \/ \E r \in GateRequests : Receive(i, r)
        \/ ServeHTTP_begin(i)
        \/ \E o \in BasicOrigins : ServeHTTP_end(i, o)

Spec == Init /\ [][Next]_vars

\* methods, request headers and origin answers vary
InitCache == InitWith({<< >>}, Stores)

NextCache ==
    \E i \in Tasks :
        \/ \E r \in HeaderRequests : Receive(i, r)
        \/ ServeHTTP_begin(i)
        \/ \E o \in CacheOrigins : ServeHTTP_end(i, o)

SpecCache == InitCache /\ [][NextCache]_vars

\* the outcomes of the outbound call vary
InitOrigin == InitWith({<< >>, <<example_com>>}, Stores)

NextOrigin ==
    \E i \in Tasks :
        \/ \E r \in OriginRequests : Receive(i, r)
        \/ ServeHTTP_begin(i)
        \/ \E o \in Origins : ServeHTTP_end(i, o)

SpecOrigin == InitOrigin /\ [][NextOrigin]_vars

\* the headers of the origin's answer vary, under a cacheable and a
\* non-cacheable request
RespRequests == {Request(m, url_a, NoHeader, << >>) : m \in {GET, POST}}

RespOrigins ==
    CacheOrigins
    \cup
    {Origin(0, "none", 200, h, <<"page">>, FALSE) :
        h \in {Hdr("Cache-Control", <<max_age_0>>),
               Hdr("Cache-Control", <<max_age_0, no_store>>),
               Hdr("Set-Cookie", <<EmptyStr, <<"sid=1">>>>)}}

InitResp == InitWith({<< >>}, {<< >>})

NextResp ==
    \E i \in Tasks :
        \/ \E r \in RespRequests : Receive(i, r)
        \/ ServeHTTP_begin(i)
        \/ \E o \in RespOrigins : ServeHTTP_end(i, o)

SpecResp == InitResp /\ [][NextResp]_vars

\* methods and URLs vary among cacheable requests
KeyRequests ==
    {Request(m, u, NoHeader, << >>) :
        m \in {GET, HEAD},
        u \in {url_a, URL(http, example_com, path_b), URL(http, api_example_com, path_a)}}

InitKey == InitWith({<< >>}, Stores)

NextKey ==
    \E i \in Tasks :
        \/ \E r \in KeyRequests : Receive(i, r)
        \/ ServeHTTP_begin(i)
        \/ \E o \in BasicOrigins : ServeHTTP_end(i, o)

SpecKey == InitKey /\ [][NextKey]_vars

\* the inbound headers and body vary
CloneRequests ==
    {Request(GET, url_a, NoHeader, << >>),
     Request(GET, url_a,
             Hdr("Connection", <<<<"keep-alive">>>>)
             @@ Hdr("X-Forwarded-For", <<<<"1.1.1.1">>, <<"2.2.2.2">>>>)
             @@ Hdr("X-Forwarded-Host", <<<<"spoofed.example">>>>)
             @@ Hdr("Accept", <<<<"text/html">>, <<"text/html">>, <<"*/*">>>>),
             << >>),
     Request(POST, url_a,
             Hdr("Connection", <<<<"close">>>>) @@ Hdr("Content-Type", <<<<"text/plain">>>>),
             <<"form", "data">>),
     Request(BADMETHOD, url_a, Hdr("Connection", <<<<"close">>>>), << >>)}

InitClone == InitWith({<< >>}, {<< >>})

NextClone ==
    \E i \in Tasks :
        \/ \E r \in CloneRequests : Receive(i, r)
        \/ ServeHTTP_begin(i)
        \/ \E o \in BasicOrigins : ServeHTTP_end(i, o)

SpecClone == InitClone /\ [][NextClone]_vars

\* the three ways an outbound call ends: the origin responds, the call
\* errors, the timeout elapses
LiveOrigins == BasicOrigins \cup {Origin(0, "timeout", 0, NoHeader, << >>, FALSE)}

InitLive == InitWith({<<example_com>>}, Stores)

NextLive ==
    \E i \in Tasks :
        \/ \E r \in OriginRequests : Receive(i, r)
        \/ ServeHTTP_begin(i)
        \/ \E o \in LiveOrigins : ServeHTTP_end(i, o)

\* the scheduling the server gives: a started task keeps running (weak
\* fairness of its first step), and the outbound call of a forwarding task
\* ends (weak fairness of its return)
SpecLive ==
    /\ InitLive
    /\ [][NextLive]_vars
    /\ \A i \in Tasks :
          /\ WF_vars(ServeHTTP_begin(i))
          /\ WF_vars(\E o \in LiveOrigins : ServeHTTP_end(i, o))

\* ------------------------------------------------------------ properties
Done(i) == pc[i] = "done"

\* how many times task i made the call named e
Calls(i, e) == Cardinality({n \in 1..Len(log[i]) : log[i][n] = e})

\* the request has a header line of name k
HasHeader(r, k) == k \in DOMAIN r.Header /\ Len(r.Header[k]) > 0

LacksSchemeOrHost(r) == r.URL.Scheme = EmptyStr \/ r.URL.Host = EmptyStr

\* C1: a request whose target has an empty scheme or an empty host is
\* answered 400 whatever its method, its headers, the allow-list and the
\* cache are, and no cache lookup and no outbound call is made for it.
C1_MalformedTargetIs400 ==
    \A i \in Tasks :
        (pc[i] # "idle" /\ LacksSchemeOrHost(req[i])) =>
            /\ Calls(i, "cache.Get") = 0
            /\ Calls(i, "client.Do") = 0
            /\ pc[i] # "Forwarding"
            /\ Done(i) => w[i].Status = 400

\* a POST with a header and no scheme and no host got its 400 while the
\* allow-list and the cache were both non-empty
C1_Witness ==
    \E i \in Tasks :
        /\ Done(i)
        /\ req[i].URL.Scheme = EmptyStr /\ req[i].URL.Host = EmptyStr
        /\ req[i].Method = POST /\ HasHeader(req[i], "Cache-Control")
        /\ AllowedDomains # << >> /\ cache # << >>
        /\ w[i].Status = 400

\* the host ends with entry number n of the allow-list
EndsWithEntry(host, n) ==
    /\ Len(host) >= Len(AllowedDomains[n])
    /\ \A k \in 1..Len(AllowedDomains[n]) :
          host[Len(host) - Len(AllowedDomains[n]) + k] = AllowedDomains[n][k]

\* C2: for a well-formed request the answer is 403 exactly when the
\* allow-list is non-empty and the host ends, character for character, with
\* none of its entries; with an empty allow-list there is never a 403.
C2_ForbiddenIffNoSuffix ==
    \A i \in Tasks :
        (Done(i) /\ ~LacksSchemeOrHost(req[i])) =>
            /\ w[i].Status = 403 <=>
                  /\ Len(AllowedDomains) > 0
                  /\ \A n \in 1..Len(AllowedDomains) : ~EndsWithEntry(req[i].URL.Host, n)
            /\ (AllowedDomains = <<example_com>>
                  /\ req[i].URL.Host \in {api_example_com, notexample_com})
                  => w[i].Status # 403
            /\ (AllowedDomains = <<example_com>>
                  /\ req[i].URL.Host \in {evil_com, Example_com})
                  => w[i].Status = 403

\* under the allow-list ["example.com"], notexample.com went through to the
\* origin and evil.com was answered 403
C2_Witness ==
    /\ AllowedDomains = <<example_com>>
    /\ \E i, j \in Tasks :
          /\ Done(i) /\ req[i].URL.Host = notexample_com
          /\ w[i].Status = 200 /\ Calls(i, "client.Do") = 1
          /\ Done(j) /\ req[j].URL.Host = evil_com /\ w[j].Status = 403

req_a == Request(GET, url_a, NoHeader, << >>)

\* C3: with an empty allow-list and an empty cache, GET http://example.com/a
\* is forwarded; a 200 answer without Set-Cookie is handed to the cache under
\* GET:http://example.com/a; and an identical request given after that one
\* has finished is served from the cache, marked X-Cache: HIT, without an
\* outbound call.
C3_SecondRequestServedFromCache ==
    \A i \in Tasks :
        (Done(i) /\ req[i] = req_a /\ AllowedDomains = << >>) =>
            /\ (cache = << >> /\ after[i] = {}) => Calls(i, "client.Do") = 1
            /\ (Calls(i, "client.Do") = 1 /\ origin[i] = origin_ok) =>
                  /\ Len(cacheWrites[i]) = 1
                  /\ cacheWrites[i][1].key = key_a
            /\ \A j \in after[i] :
                  Len(cacheWrites[j]) = 1 =>
                      /\ HeaderGet(w[i].Header, "X-Cache") = HIT
                      /\ Calls(i, "client.Do") = 0

\* the request passed both checks of the gatekeeper
PassedGate(i) ==
    /\ ~LacksSchemeOrHost(req[i])
    /\ \/ Len(AllowedDomains) = 0
       \/ \E n \in 1..Len(AllowedDomains) : EndsWithEntry(req[i].URL.Host, n)

\* C4: a request that carries an Authorization header causes no cache Get
\* and no cache write, also when an entry is stored under its key, and is
\* forwarded to the origin whenever it passes validation.
C4_AuthorizationNeverTouchesCache ==
    \A i \in Tasks :
        (pc[i] # "idle" /\ HasHeader(req[i], "Authorization")) =>
            /\ Calls(i, "cache.Get") = 0
            /\ Len(cacheWrites[i]) = 0
            /\ (Done(i) /\ PassedGate(i)) => Calls(i, "client.Do") = 1

\* C5: when the request is cacheable and the cache returns an entry for its
\* key, the response is that entry alone under X-Cache: HIT: one Get, no
\* outbound call, nothing else consulted, no cache write.
C5_HitServedFromEntryAlone ==
    \A i \in Tasks :
        (Done(i) /\ PassedGate(i) /\ isCacheable(req[i])
                 /\ createCacheKey(req[i]) \in DOMAIN cache) =>
            /\ w[i].Header = [k \in {"X-Cache"} |-> <<HIT>>]
            /\ w[i].Body = cache[createCacheKey(req[i])]
            /\ w[i].Status = 200
            /\ log[i] = <<"cache.Get", "Write">>
            /\ Calls(i, "client.Do") = 0
            /\ Len(cacheWrites[i]) = 0
            /\ origin[i] = NoOrigin

\* a GET whose key was stored was answered with the stored entry under
\* X-Cache: HIT
C5_Witness ==
    \E i \in Tasks :
        /\ Done(i) /\ req[i] = req_a /\ key_a \in DOMAIN cache
        /\ HeaderGet(w[i].Header, "X-Cache") = HIT
        /\ w[i].Body = <<"stored">>

\* the outbound call of task i returned a response (its status line was
\* relayed) and the body of that response was read to its end
ForwardSucceeded(i) ==
    /\ Done(i)
    /\ Calls(i, "client.Do") = 1
    /\ Calls(i, "WriteHeader") = 1
    /\ ~origin[i].BodyErr

CacheableMiss(i) ==
    /\ pc[i] # "idle"
    /\ PassedGate(i)
    /\ isCacheable(req[i])
    /\ createCacheKey(req[i]) \notin DOMAIN cache

\* C7: requests for one cacheable key that has no entry each make their own
\* outbound call and their own cache write; a task's steps are enabled
\* whatever the other tasks are doing, so none waits for or reuses another.
C7_NoCoalescing ==
    \A i \in Tasks :
        /\ pc[i] = "Received" => ENABLED ServeHTTP_begin(i)
        /\ pc[i] = "Forwarding" => \A o \in CacheOrigins : ENABLED ServeHTTP_end(i, o)
        /\ (CacheableMiss(i) /\ pc[i] \in {"Forwarding", "done"}) =>
              Calls(i, "client.Do") = 1
        /\ (CacheableMiss(i) /\ Done(i) /\ origin[i] = origin_ok) =>
              Len(cacheWrites[i]) = 1

\* two tasks held the same request at the same time, nothing was stored for
\* its key, and each made one outbound call and one cache write
C7_Witness ==
    \E i, j \in Tasks :
        /\ i # j /\ req[i] = req[j]
        /\ CacheableMiss(i) /\ Done(i) /\ Done(j)
        /\ i \notin after[j] /\ j \notin after[i]
        /\ Calls(i, "client.Do") = 1 /\ Calls(j, "client.Do") = 1
        /\ Len(cacheWrites[i]) = 1 /\ Len(cacheWrites[j]) = 1

\* the outbound call of task i returned a response, whose status line was relayed
OriginAnswered(i) == Calls(i, "client.Do") = 1 /\ Calls(i, "WriteHeader") = 1

\* the outbound call of task i returned an error
OriginFailed(i) == Calls(i, "client.Do") = 1 /\ Calls(i, "WriteHeader") = 0

\* C8 as stated: the handler's own statuses are 400 (no scheme or host), 403
\* (host not allowed) and 502 (failed forward); every other request gets the
\* origin's status unchanged.
C8_OnlyThreeOwnStatuses ==
    \A i \in Tasks :
        Done(i) =>
            \/ LacksSchemeOrHost(req[i]) /\ w[i].Status = 400
            \/ ~LacksSchemeOrHost(req[i]) /\ ~PassedGate(i) /\ w[i].Status = 403
            \/ PassedGate(i) /\ OriginFailed(i) /\ w[i].Status = 502
            \/ PassedGate(i) /\ OriginAnswered(i) /\ w[i].Status = origin[i].StatusCode

\* C8 amended: the handler's own statuses are 400, 403, 502, the 200 of a
\* response served from the cache (no origin is asked) and the 500 of an
\* outbound request that cannot be built; every other request gets the
\* origin's status unchanged.
C8_OwnStatuses ==
    \A i \in Tasks :
        Done(i) =>
            \/ LacksSchemeOrHost(req[i]) /\ w[i].Status = 400
            \/ ~LacksSchemeOrHost(req[i]) /\ ~PassedGate(i) /\ w[i].Status = 403
            \/ PassedGate(i) /\ OriginFailed(i) /\ w[i].Status = 502
            \/ PassedGate(i) /\ OriginAnswered(i) /\ w[i].Status = origin[i].StatusCode
            \/ /\ PassedGate(i) /\ Calls(i, "client.Do") = 0
               /\ Calls(i, "cache.Get") = 1 /\ createCacheKey(req[i]) \in DOMAIN cache
               /\ w[i].Status = 200
            \/ /\ PassedGate(i) /\ Calls(i, "client.Do") = 0
               /\ \E n \in 1..Len(req[i].Method) : req[i].Method[n] = " "
               /\ w[i].Status = 500

\* an origin's 404 was passed through by one task and another was answered
\* from the cache with the handler's own 200
C8_Witness ==
    \E i, j \in Tasks :
        /\ Done(i) /\ OriginAnswered(i)
        /\ origin[i].StatusCode = 404 /\ w[i].Status = 404
        /\ Done(j) /\ Calls(j, "client.Do") = 0
        /\ HeaderGet(w[j].Header, "X-Cache") = HIT /\ w[j].Status = 200

\* C9: when the outbound call fails (network error, refused redirect,
\* timeout) the client gets 502, the call was made once, nothing of the
\* origin is relayed and nothing is handed to the cache.
C9_ForwardFailureIs502 ==
    \A i \in Tasks :
        /\ Calls(i, "client.Do") <= 1
        /\ (Done(i) /\ Calls(i, "client.Do") = 1
              /\ (origin[i].Fail \in {"network", "timeout"}
                    \/ origin[i].Redirects > RedirectLimit)) =>
              /\ w[i].Status = 502
              /\ w[i].Body = <<"Error forwarding request">>
              /\ DOMAIN w[i].Header = {"Content-Type", "X-Content-Type-Options"}
              /\ Calls(i, "WriteHeader") = 0
              /\ Len(cacheWrites[i]) = 0

\* a timeout, and a chain of redirects beyond the limit, each ended in 502
C9_Witness ==
    \E i, j \in Tasks :
        /\ Done(i) /\ origin[i].Fail = "timeout" /\ w[i].Status = 502
        /\ Done(j) /\ origin[j].Redirects > RedirectLimit /\ w[j].Status = 502

\* C10: isCacheable is true exactly when the method is GET or HEAD, the
\* request has no Authorization header, and its Cache-Control header does not
\* contain no-store.
C10_IsCacheableIff ==
    \A i \in Tasks :
        pc[i] # "idle" =>
            (isCacheable(req[i]) <=>
                /\ req[i].Method \in {GET, HEAD}
                /\ ~HasHeader(req[i], "Authorization")
                /\ ~\E n \in 1..Len(IF HasHeader(req[i], "Cache-Control")
                                     THEN req[i].Header["Cache-Control"] ELSE << >>) :
                       Contains(req[i].Header["Cache-Control"][n], no_store))

\* the answer of the origin has a header line of name k
RespHasHeader(o, k) == k \in DOMAIN o.Header /\ Len(o.Header[k]) > 0

\* C11: isResponseCacheable is true exactly when the status is 200, the
\* response's Cache-Control header does not contain no-store and the
\* response has no Set-Cookie header; it is false for every other status.
C11_IsResponseCacheableIff ==
    \A i \in Tasks :
        (Done(i) /\ Calls(i, "WriteHeader") = 1) =>
            (isResponseCacheable(origin[i]) <=>
                /\ origin[i].StatusCode = 200
                /\ ~RespHasHeader(origin[i], "Set-Cookie")
                /\ ~\E n \in 1..Len(IF RespHasHeader(origin[i], "Cache-Control")
                                     THEN origin[i].Header["Cache-Control"] ELSE << >>) :
                       Contains(origin[i].Header["Cache-Control"][n], no_store))

\* the text method ":" URL of the request of task i
MethodColonURL(i) == req[i].Method \o <<":">> \o URLString(req[i].URL)

\* C12: the cache key is method ":" URL string, the same for the same pair,
\* and two requests have the same key only if they have the same method and
\* the same URL string; an entry is served only to a request of exactly its
\* method and URL, so a HEAD is never served the entry of the GET.
C12_KeyIsInjective ==
    \A i, j \in Tasks :
        /\ Len(cacheWrites[i]) = 1 => cacheWrites[i][1].key = MethodColonURL(i)
        /\ (Len(cacheWrites[i]) = 1 /\ Len(cacheWrites[j]) = 1) =>
              (cacheWrites[i][1].key = cacheWrites[j][1].key <=>
                  /\ req[i].Method = req[j].Method
                  /\ URLString(req[i].URL) = URLString(req[j].URL))
        /\ (pc[i] # "idle" /\ pc[j] # "idle") =>
              (createCacheKey(req[i]) = createCacheKey(req[j]) <=>
                  /\ req[i].Method = req[j].Method
                  /\ URLString(req[i].URL) = URLString(req[j].URL))
        /\ (Done(i) /\ HeaderGet(w[i].Header, "X-Cache") = HIT) =>
              MethodColonURL(i) \in DOMAIN cache

\* with the GET of /a stored, a HEAD of /a went to the origin and was handed
\* to the cache under its own key, and a GET of /b under yet another key
C12_Witness ==
    \E i, j \in Tasks :
        /\ key_a \in DOMAIN cache
        /\ req[i].Method = HEAD /\ req[i].URL = url_a
        /\ Calls(i, "client.Do") = 1 /\ Len(cacheWrites[i]) = 1
        /\ req[j].Method = GET /\ req[j].URL.Path = path_b /\ Len(cacheWrites[j]) = 1
        /\ cacheWrites[i][1].key # key_a
        /\ cacheWrites[j][1].key # key_a
        /\ cacheWrites[i][1].key # cacheWrites[j][1].key

\* The states of a request, read off the calls of its task: Validated is
\* having passed the gatekeeper; CacheHit is <<cache.Get, Write>>; CacheMiss
\* is going on without a stored entry, after a cache.Get when the request is
\* cacheable; Forwarding is client.Do; ForwardFailed is the http.Error after
\* client.Do; Forwarded is WriteHeader and ReadAll; MaybeCached is the
\* decision on cacheResponse; Served is the final Write; ValidationFailed and
\* ErrorServed are the http.Error of the gatekeeper.
LookedUp(i) == IF isCacheable(req[i]) THEN <<"cache.Get">> ELSE << >>

PathValidationFailed(i) ==
    /\ ~PassedGate(i)
    /\ log[i] = <<"http.Error">>

PathCacheHit(i) ==
    /\ PassedGate(i)
    /\ log[i] = <<"cache.Get", "Write">>

PathServed(i) ==
    /\ PassedGate(i)
    /\ \/ log[i] = LookedUp(i) \o <<"client.Do", "WriteHeader", "ReadAll", "Write">>
       \/ log[i] = LookedUp(i) \o <<"client.Do", "WriteHeader", "ReadAll",
                                    "cacheResponse", "Write">>

PathForwardFailed(i) ==
    /\ PassedGate(i)
    /\ log[i] = LookedUp(i) \o <<"client.Do", "http.Error">>

\* Forwarded, then the end of the request with no body written
PathTruncated(i) ==
    /\ PassedGate(i)
    /\ origin[i].BodyErr
    /\ log[i] = LookedUp(i) \o <<"client.Do", "WriteHeader", "ReadAll">>

\* Validated, then an error served because no outbound request could be built
PathCloneFailed(i) ==
    /\ PassedGate(i)
    /\ log[i] = LookedUp(i) \o <<"http.Error">>

\* the status lines task i has sent: by WriteHeader, by http.Error, or by the
\* first Write when neither was called
StatusLines(i) ==
    Calls(i, "WriteHeader") + Calls(i, "http.Error")
    + (IF Calls(i, "Write") = 1 /\ Calls(i, "WriteHeader") = 0 THEN 1 ELSE 0)

Rank(p) == CASE p = "idle" -> 0 [] p = "Received" -> 1
             [] p = "Forwarding" -> 2 [] p = "done" -> 3

\* a task only moves forward, adds to its calls, and stays as it ended
OnlyForward(i) ==
    /\ Rank(pc'[i]) >= Rank(pc[i])
    /\ Len(log'[i]) >= Len(log[i])
    /\ SubSeq(log'[i], 1, Len(log[i])) = log[i]
    /\ Done(i) => (log'[i] = log[i] /\ w'[i] = w[i] /\ pc'[i] = pc[i])

OneOfEach(i) ==
    /\ StatusLines(i) <= 1
    /\ \A e \in {"cache.Get", "client.Do", "WriteHeader", "ReadAll",
                 "cacheResponse", "Write", "http.Error"} : Calls(i, e) <= 1
    /\ Done(i) => StatusLines(i) = 1

\* C13 as stated: every request ends on one of the four paths (cache hit,
\* forwarded and served, validation failed, forward failed), with one
\* terminal state, at most one status line, no re-entry and no retry.
C13_FourPaths ==
    \A i \in Tasks :
        /\ OneOfEach(i)
        /\ Done(i) => \/ PathCacheHit(i)
                      \/ PathServed(i)
                      \/ PathValidationFailed(i)
                      \/ PathForwardFailed(i)

\* C13 amended: the four paths, or Forwarded and then the end of the request
\* with a truncated body when the origin's body cannot be read, or Validated
\* and then an error served when no outbound request can be built; one
\* terminal state, one status line, no re-entry and no retry.
C13_SixPaths ==
    /\ [](\A i \in Tasks :
            /\ OneOfEach(i)
            /\ Done(i) => \/ PathCacheHit(i)
                          \/ PathServed(i)
                          \/ PathValidationFailed(i)
                          \/ PathForwardFailed(i)
                          \/ PathTruncated(i)
                          \/ PathCloneFailed(i))
    /\ [][\A i \in Tasks : OnlyForward(i)]_vars

\* one request ended truncated after Forwarded while another was served whole
C13_Witness ==
    \E i, j \in Tasks :
        /\ Done(i) /\ PathTruncated(i) /\ w[i].Body = << >>
        /\ Done(j) /\ PathServed(j) /\ Calls(j, "cacheResponse") = 1

\* the place of the call named e among the calls of task i, 0 when not made
Place(i, e) ==
    IF Calls(i, e) = 0 THEN 0
    ELSE CHOOSE n \in 1..Len(log[i]) : log[i][n] = e

\* C14 as stated: when a response is handed to the cache, the client's
\* status, headers and body have all been written before.
C14_CacheWriteAfterBody ==
    \A i \in Tasks :
        Calls(i, "cacheResponse") = 1 =>
            /\ Place(i, "WriteHeader") > 0
            /\ Place(i, "WriteHeader") < Place(i, "cacheResponse")
            /\ Place(i, "Write") > 0
            /\ Place(i, "Write") < Place(i, "cacheResponse")

\* C14 amended: when a response is handed to the cache, the client's status
\* and headers have been written and the origin's body has been read, but the
\* body is written to the client only after cacheResponse has returned.
C14_CacheWriteBeforeBody ==
    \A i \in Tasks :
        Calls(i, "cacheResponse") = 1 =>
            /\ Place(i, "WriteHeader") > 0
            /\ Place(i, "WriteHeader") < Place(i, "ReadAll")
            /\ Place(i, "ReadAll") < Place(i, "cacheResponse")
            /\ Place(i, "cacheResponse") < Place(i, "Write")
            /\ Len(cacheWrites[i]) = 1
            /\ w[i].Status = 200
            /\ w[i].Body = cacheWrites[i][1].body

\* a cacheable miss got a cacheable answer, which was handed to the cache
C14_Witness ==
    \E i \in Tasks :
        /\ Done(i) /\ CacheableMiss(i) /\ origin[i] = origin_ok
        /\ Calls(i, "cacheResponse") = 1 /\ Calls(i, "Write") = 1

\* C15: the allow-list is applied before the cache is read: a request whose
\* host is not allowed gets 403 with no cache Get and is never served from
\* the cache, even with an entry stored under its key; and a cache Get is
\* made only for a request that passed the scheme and host validation.
C15_GateBeforeCache ==
    \A i \in Tasks :
        /\ (pc[i] # "idle" /\ ~PassedGate(i)) =>
              /\ Calls(i, "cache.Get") = 0
              /\ HeaderGet(w[i].Header, "X-Cache") # HIT
              /\ w[i].Body # <<"stored">>
        /\ (Done(i) /\ ~LacksSchemeOrHost(req[i]) /\ ~PassedGate(i)) => w[i].Status = 403
        /\ Calls(i, "cache.Get") >= 1 => (~LacksSchemeOrHost(req[i]) /\ PassedGate(i))

\* evil.com, not allowed, was answered 403 without a Get although an entry
\* was stored under the key of that very request
C15_Witness ==
    \E i \in Tasks :
        /\ Done(i) /\ req[i].URL.Host = evil_com
        /\ AllowedDomains = <<example_com>>
        /\ isCacheable(req[i]) /\ MethodColonURL(i) \in DOMAIN cache
        /\ w[i].Status = 403 /\ Calls(i, "cache.Get") = 0

ForwardedKeys == {"X-Forwarded-For", "X-Forwarded-Host"}

\* C16: the outbound request has the inbound method, target URL and body,
\* and the inbound header map, every key with its ordered values, except
\* that X-Forwarded-For is exactly the client's address, X-Forwarded-Host is
\* exactly the original Host, and Connection is absent.
C16_CloneKeepsAllButHopHeaders ==
    \A i \in Tasks :
        Calls(i, "client.Do") = 1 =>
            /\ ~proxyReq[i].err
            /\ proxyReq[i].Method = req[i].Method
            /\ proxyReq[i].URL = URLString(req[i].URL)
            /\ proxyReq[i].Body = req[i].Body
            /\ DOMAIN proxyReq[i].Header =
                  (DOMAIN req[i].Header \cup ForwardedKeys) \ {"Connection"}
            /\ \A k \in DOMAIN req[i].Header \ (ForwardedKeys \cup {"Connection"}) :
                  proxyReq[i].Header[k] = req[i].Header[k]
            /\ proxyReq[i].Header["X-Forwarded-For"] = <<req[i].RemoteAddr>>
            /\ proxyReq[i].Header["X-Forwarded-Host"] = <<req[i].Host>>

\* a request that came with Connection, two X-Forwarded-For values, an
\* X-Forwarded-Host and a repeated Accept value was cloned and forwarded
C16_Witness ==
    \E i \in Tasks :
        /\ Calls(i, "client.Do") = 1
        /\ HasHeader(req[i], "Connection")
        /\ Len(req[i].Header["X-Forwarded-For"]) = 2
        /\ HasHeader(req[i], "X-Forwarded-Host")
        /\ Len(proxyReq[i].Header["Accept"]) = 3
        /\ "Connection" \notin DOMAIN proxyReq[i].Header

\* C17: the outbound call follows up to 10 redirects: a chain of at most 10
\* redirects is followed to its final response, and the call is aborted,
\* giving 502, when an 11th redirect is met.
C17_TenRedirectsFollowed ==
    \A i \in Tasks :
        (Done(i) /\ Calls(i, "client.Do") = 1 /\ origin[i].Fail = "none") =>
            /\ origin[i].Redirects <= 10 =>
                  /\ Calls(i, "WriteHeader") = 1
                  /\ w[i].Status = origin[i].StatusCode
            /\ origin[i].Redirects >= 11 => w[i].Status = 502

\* C18: when reading the origin's body fails, the origin's status and
\* headers are already written; the handler then writes no body, sends no
\* error status, hands nothing to the cache and ends the request.
C18_BodyReadFailureTruncates ==
    \A i \in Tasks :
        (Done(i) /\ Calls(i, "ReadAll") = 1 /\ origin[i].BodyErr) =>
            /\ Place(i, "WriteHeader") > 0
            /\ Place(i, "WriteHeader") < Place(i, "ReadAll")
            /\ Place(i, "ReadAll") = Len(log[i])
            /\ w[i].Status = origin[i].StatusCode
            /\ \A k \in DOMAIN origin[i].Header : k \in DOMAIN w[i].Header
            /\ w[i].Body = << >>
            /\ Calls(i, "Write") = 0
            /\ Calls(i, "http.Error") = 0
            /\ Calls(i, "cacheResponse") = 0
            /\ Len(cacheWrites[i]) = 0

\* a cacheable GET whose 200 answer would have been cached ended with the
\* status sent and no body, the body read having failed
C18_Witness ==
    \E i \in Tasks :
        /\ Done(i) /\ origin[i].BodyErr /\ Calls(i, "ReadAll") = 1
        /\ isCacheable(req[i]) /\ origin[i].StatusCode = 200
        /\ w[i].Status = 200 /\ w[i].Body = << >>

Markers == {"X-Proxy-Server", "X-Cache"}

\* C19: a response relayed from the origin has every origin header with its
\* values and X-Proxy-Server with the proxy's own value alone, whatever the
\* origin sent under that name; a response served from the cache has
\* X-Cache: HIT; the responses of the error paths have neither marker.
C19_ResponseMarkers ==
    \A i \in Tasks :
        /\ (Done(i) /\ Calls(i, "WriteHeader") = 1) =>
              /\ DOMAIN w[i].Header = DOMAIN origin[i].Header \cup {"X-Proxy-Server"}
              /\ \A k \in DOMAIN origin[i].Header \ {"X-Proxy-Server"} :
                    w[i].Header[k] = origin[i].Header[k]
              /\ w[i].Header["X-Proxy-Server"] = <<<<"Go-Proxy-Server/1.0">>>>
        /\ (Done(i) /\ log[i] = <<"cache.Get", "Write">>) =>
              /\ "X-Cache" \in DOMAIN w[i].Header
              /\ w[i].Header["X-Cache"] = <<<<"HIT">>>>
        /\ (Done(i) /\ w[i].Status \in {400, 403, 500, 502} /\ Calls(i, "WriteHeader") = 0) =>
              DOMAIN w[i].Header \cap Markers = {}

\* an answer that came with an X-Proxy-Server of the origin's and two Vary
\* values was relayed, and a failed forward was answered without markers
C19_Witness ==
    \E i, j \in Tasks :
        /\ Done(i) /\ Calls(i, "WriteHeader") = 1
        /\ "X-Proxy-Server" \in DOMAIN origin[i].Header
        /\ Len(w[i].Header["Vary"]) = 2
        /\ Done(j) /\ w[j].Status = 502 /\ Calls(j, "client.Do") = 1

\* C20: when every outbound call ends, every received request reaches a
\* terminal state; the step of a received task and the return of a forwarding
\* task are enabled whatever the other tasks are doing, and a task rests
\* only at the outbound call.
C20_EveryRequestTerminates ==
    \A i \in Tasks :
        /\ (pc[i] \in {"Received", "Forwarding"}) ~> Done(i)
        /\ [](pc[i] = "Received" => ENABLED ServeHTTP_begin(i))
        /\ [](pc[i] = "Forwarding" => ENABLED (\E o \in LiveOrigins : ServeHTTP_end(i, o)))
        /\ [](pc[i] \in {"idle", "Received", "Forwarding", "done"})

\* a later request was forwarded and answered while an earlier one was still
\* waiting for its origin
C20_Witness ==
    \E i, j \in Tasks :
        /\ j < i
        /\ pc[j] = "Forwarding"
        /\ Done(i) /\ Calls(i, "client.Do") = 1

====
